---- MODULE Spec2Model ----
(***************************************************************************)
(* A model of the two heuristic engines of the repository:                 *)
(*   src/app.py                      extraction of financial facts from   *)
(*                                   the text of PDF pages                 *)
(*   src/bank_statement_analyzer.py  column reconciliation, rule-based    *)
(*                                   categorization and spend summaries    *)
(*                                                                         *)
(* Text is a tuple of characters.  An ASCII character is the one-character *)
(* string; the non-ASCII characters that occur in the source or in the     *)
(* inputs are named by their code point ("U00A3" is the pound sign).       *)
(* src/app.py holds the currency symbols as mis-decoded character runs:    *)
(* the euro sign is written U201A U00C7 U00A8, the pound sign U00AC U00A3  *)
(* and the rupee sign U201A U00C7 U03C0; the model keeps them as written.  *)
(*                                                                         *)
(* Amounts are exact decimals held as integers in units of 10^-FracDigits. *)
(***************************************************************************)
EXTENDS Integers, Sequences, FiniteSets

VARIABLES
    pc,           \* position of the running function: "call", "page", "line", "done", "raised"
    fn,           \* the function that was called
    args,         \* its arguments
    ret,          \* the value it returned (NoValue until it returns)
    lines,        \* extract_financial_metrics: the stripped non-empty lines of the page
    page_number,  \* extract_financial_metrics: 1-based index of the page being read
    line_idx,     \* extract_financial_metrics: index of the line being read
    metric_idx,   \* extract_financial_metrics: index of the metric being tried
    metrics       \* extract_financial_metrics: the facts appended so far

vars == <<pc, fn, args, ret, lines, page_number, line_idx, metric_idx, metrics>>

(***************************************************************************)
(* Bounds of the model.                                                    *)
(***************************************************************************)
MaxYears == 3      \* longest list of years given to assign_years_to_amounts
MaxAmounts == 3    \* largest amount count given to assign_years_to_amounts
MaxLines == 2      \* most raw lines on a page
FracDigits == 2    \* decimal places an amount keeps
MaxWords == 2      \* most fragments in a transaction description
MaxCols == 4       \* most columns of a statement table
MaxTxns == 2       \* most rows of a normalized statement

NoValue == <<"NoValue">>

Min(S) == CHOOSE x \in S : \A y \in S : x <= y
Max(S) == CHOOSE x \in S : \A y \in S : x >= y

RECURSIVE Pow10(_)
Pow10(n) == IF n = 0 THEN 1 ELSE 10 * Pow10(n - 1)

Unit == Pow10(FracDigits)

RECURSIVE Flatten(_)
Flatten(ss) == IF ss = <<>> THEN <<>> ELSE Head(ss) \o Flatten(Tail(ss))

(***************************************************************************)
(* Characters and the str methods the code calls.                          *)
(***************************************************************************)
Digits == {"0", "1", "2", "3", "4", "5", "6", "7", "8", "9"}

DigitSeq == <<"0","1","2","3","4","5","6","7","8","9">>

DigitVal(c) == (CHOOSE i \in 1..10 : DigitSeq[i] = c) - 1

Whitespace == {" ", "TAB"}

UpperSeq == <<"A","B","C","D","E","F","G","H","I","J","K","L","M","N","O","P","Q","R","S","T","U","V","W","X","Y","Z","U00C7">>

LowerSeq == <<"a","b","c","d","e","f","g","h","i","j","k","l","m","n","o","p","q","r","s","t","u","v","w","x","y","z","U00E7">>

\* The characters \w matches: letters, digits and the underscore.
WordChars ==
    {UpperSeq[i] : i \in 1..Len(UpperSeq)} \cup {LowerSeq[i] : i \in 1..Len(LowerSeq)}
        \cup Digits \cup {"_", "U03C0"}

LowerOf ==
    [c \in {UpperSeq[i] : i \in 1..Len(UpperSeq)} |->
        LowerSeq[CHOOSE i \in 1..Len(UpperSeq) : UpperSeq[i] = c]]

Lower(c) == IF c \in DOMAIN LowerOf THEN LowerOf[c] ELSE c

str_lower(s) == [i \in 1..Len(s) |-> Lower(s[i])]

\* The first index >= i of s that is not in set (Len(s) + 1 if there is none).
RECURSIVE RunEnd(_, _, _)
RunEnd(s, i, set) == IF i > Len(s) \/ s[i] \notin set THEN i ELSE RunEnd(s, i + 1, set)

\* The last index <= i of s that is not in set (0 if there is none).
RECURSIVE RunStart(_, _, _)
RunStart(s, i, set) == IF i < 1 \/ s[i] \notin set THEN i ELSE RunStart(s, i - 1, set)

\* s.strip(chars): leading and trailing characters of the set removed.
str_strip_chars(s, chars) == SubSeq(s, RunEnd(s, 1, chars), RunStart(s, Len(s), chars))

str_strip(s) == str_strip_chars(s, Whitespace)

str_startswith(s, c) == Len(s) >= 1 /\ s[1] = c

str_endswith(s, c) == Len(s) >= 1 /\ s[Len(s)] = c

\* The membership test: sub in s
str_contains(s, sub) ==
    \E i \in 1..(Len(s) - Len(sub) + 1) : SubSeq(s, i, i + Len(sub) - 1) = sub

\* s.replace(old, ""): the occurrences of old removed, left to right.
RECURSIVE str_remove(_, _)
str_remove(s, old) ==
    IF Len(s) < Len(old) THEN s
    ELSE IF SubSeq(s, 1, Len(old)) = old
         THEN str_remove(SubSeq(s, Len(old) + 1, Len(s)), old)
         ELSE <<s[1]>> \o str_remove(Tail(s), old)

(***************************************************************************)
(* re.search for the patterns of the two tables.  A pattern is a tuple of  *)
(* elements: a literal character, "\\s+" (one or more whitespace), "\\b"   *)
(* (a word boundary) or " ?" (an optional space).  fold is re.IGNORECASE.  *)
(***************************************************************************)
IsWordAt(s, i) == i >= 1 /\ i <= Len(s) /\ s[i] \in WordChars

\* A word boundary lies between s[i-1] and s[i].
WordBoundary(s, i) == IsWordAt(s, i - 1) # IsWordAt(s, i)

RECURSIVE re_match(_, _, _, _, _)
re_match(pat, k, s, i, fold) ==
    IF k > Len(pat) THEN TRUE
    ELSE CASE pat[k] = "\\s+" ->
                  /\ i <= Len(s)
                  /\ s[i] \in Whitespace
                  /\ (re_match(pat, k, s, i + 1, fold) \/ re_match(pat, k + 1, s, i + 1, fold))
           [] pat[k] = "\\b" ->
                  WordBoundary(s, i) /\ re_match(pat, k + 1, s, i, fold)
           [] pat[k] = " ?" ->
                  \/ i <= Len(s) /\ s[i] = " " /\ re_match(pat, k + 1, s, i + 1, fold)
                  \/ re_match(pat, k + 1, s, i, fold)
           [] OTHER ->
                  /\ i <= Len(s)
                  /\ (IF fold THEN Lower(s[i]) ELSE s[i]) = pat[k]
                  /\ re_match(pat, k + 1, s, i + 1, fold)

re_search(pat, s, fold) == \E i \in 1..(Len(s) + 1) : re_match(pat, 1, s, i, fold)

(***************************************************************************)
(* src/app.py                                                              *)
(***************************************************************************)
\* Python's None, for a year that is not set.  YEAR_PATTERN yields 1900..2099 only.
None == 0

FINANCIAL_PATTERNS ==
    << [name |-> "Revenue",
        aliases |-> <<<<"r","e","v","e","n","u","e">>, <<"t","o","t","a","l","\\s+","i","n","c","o","m","e">>, <<"t","u","r","n","o","v","e","r">>, <<"s","a","l","e","s">>,
                      <<"i","n","c","o","m","e","\\s+","f","r","o","m","\\s+","o","p","e","r","a","t","i","o","n","s">>>>],
       [name |-> "Gross Profit", aliases |-> <<<<"g","r","o","s","s","\\s+","p","r","o","f","i","t">>>>],
       [name |-> "Operating Income",
        aliases |-> <<<<"o","p","e","r","a","t","i","n","g","\\s+","i","n","c","o","m","e">>, <<"o","p","e","r","a","t","i","n","g","\\s+","p","r","o","f","i","t">>, <<"e","b","i","t">>>>],
       [name |-> "EBITDA", aliases |-> <<<<"e","b","i","t","d","a">>>>],
       [name |-> "Net Income",
        aliases |-> <<<<"n","e","t","\\s+","i","n","c","o","m","e">>, <<"n","e","t","\\s+","p","r","o","f","i","t">>, <<"p","r","o","f","i","t","\\s+","a","f","t","e","r","\\s+","t","a","x">>, <<"p","a","t">>>>],
       [name |-> "Total Assets", aliases |-> <<<<"t","o","t","a","l","\\s+","a","s","s","e","t","s">>>>],
       [name |-> "Total Liabilities", aliases |-> <<<<"t","o","t","a","l","\\s+","l","i","a","b","i","l","i","t","i","e","s">>>>],
       [name |-> "Cash Flow",
        aliases |-> <<<<"c","a","s","h","\\s+","f","l","o","w">>, <<"n","e","t","\\s+","c","a","s","h","\\s+","f","r","o","m","\\s+","o","p","e","r","a","t","i","n","g","\\s+","a","c","t","i","v","i","t","i","e","s">>>>],
       [name |-> "EPS", aliases |-> <<<<"e","a","r","n","i","n","g","s","\\s+","p","e","r","\\s+","s","h","a","r","e">>, <<"\\b","e","p","s","\\b">>>>] >>

\* The character class of AMOUNT_PATTERN, as the file spells it.
AmountCurrencyClass == {"$", "U201A", "U00C7", "U00A8", "U00AC", "U00A3", "U03C0"}

IsAt(s, i, set) == i <= Len(s) /\ s[i] \in set

\* AMOUNT_PATTERN.match at index i: the index after the match, 0 if there is none.
\*   \(?[-+]?[<currency>]?\s?\d[\d,]*(?:\.\d+)?\)?
AMOUNT_PATTERN_end(s, i) ==
    LET i1 == IF IsAt(s, i, {"("}) THEN i + 1 ELSE i
        i2 == IF IsAt(s, i1, {"-", "+"}) THEN i1 + 1 ELSE i1
        i3 == IF IsAt(s, i2, AmountCurrencyClass) THEN i2 + 1 ELSE i2
        i4 == IF IsAt(s, i3, Whitespace) THEN i3 + 1 ELSE i3
        i5 == RunEnd(s, i4 + 1, Digits \cup {","})
        i6 == IF IsAt(s, i5, {"."}) /\ IsAt(s, i5 + 1, Digits)
              THEN RunEnd(s, i5 + 1, Digits) ELSE i5
        i7 == IF IsAt(s, i6, {")"}) THEN i6 + 1 ELSE i6
    IN  IF IsAt(s, i4, Digits) THEN i7 ELSE 0

\* AMOUNT_PATTERN.findall(s), scanning from index i.
RECURSIVE AMOUNT_PATTERN_findall(_, _)
AMOUNT_PATTERN_findall(s, i) ==
    IF i > Len(s) THEN <<>>
    ELSE LET e == AMOUNT_PATTERN_end(s, i)
         IN  IF e = 0 THEN AMOUNT_PATTERN_findall(s, i + 1)
             ELSE <<SubSeq(s, i, e - 1)>> \o AMOUNT_PATTERN_findall(s, e)

\* YEAR_PATTERN.match at index i:  \b(19\d{2}|20\d{2})\b
YEAR_PATTERN_at(s, i) ==
    /\ i + 3 <= Len(s)
    /\ WordBoundary(s, i)
    /\ <<s[i], s[i + 1]>> \in {<<"1","9">>, <<"2","0">>}
    /\ s[i + 2] \in Digits
    /\ s[i + 3] \in Digits
    /\ WordBoundary(s, i + 4)

int(ds) ==
    LET n == Len(ds)
        RECURSIVE val(_)
        val(k) == IF k = 0 THEN 0 ELSE 10 * val(k - 1) + DigitVal(ds[k])
    IN  val(n)

RECURSIVE YEAR_PATTERN_findall(_, _)
YEAR_PATTERN_findall(s, i) ==
    IF i > Len(s) THEN <<>>
    ELSE IF YEAR_PATTERN_at(s, i)
         THEN <<SubSeq(s, i, i + 3)>> \o YEAR_PATTERN_findall(s, i + 4)
         ELSE YEAR_PATTERN_findall(s, i + 1)

extract_years(text) ==
    LET found == YEAR_PATTERN_findall(text, 1)
    IN  [k \in 1..Len(found) |-> int(found[k])]

\* float(txt): [raised |-> TRUE] for a ValueError, else the value in units of
\* 10^-FracDigits.  Only the forms a token of AMOUNT_PATTERN can take are read:
\* surrounding whitespace, a sign, digits, a point and digits.
float(txt) ==
    LET t == str_strip(txt)
        signed == IsAt(t, 1, {"-", "+"})
        body == IF signed THEN Tail(t) ELSE t
        e1 == RunEnd(body, 1, Digits)
        whole == SubSeq(body, 1, e1 - 1)
        point == IsAt(body, e1, {"."})
        frac == IF point THEN SubSeq(body, e1 + 1, Len(body)) ELSE <<>>
        wellFormed ==
            /\ Len(whole) + Len(frac) >= 1
            /\ point \/ e1 = Len(body) + 1
            /\ \A k \in 1..Len(frac) : frac[k] \in Digits
        kept == SubSeq(frac, 1, IF Len(frac) < FracDigits THEN Len(frac) ELSE FracDigits)
        magnitude == int(whole) * Unit + int(kept) * Pow10(FracDigits - Len(kept))
    IN  IF ~wellFormed THEN [raised |-> TRUE, value |-> 0]
        ELSE [raised |-> FALSE,
              value |-> IF IsAt(t, 1, {"-"}) THEN 0 - magnitude ELSE magnitude]

normalize_amount(raw) ==
    LET txt0 == str_strip(
                    str_remove(
                        str_remove(
                            str_remove(
                                str_remove(str_remove(raw, <<",">>), <<"$">>),
                                <<"U201A","U00C7","U00A8">>),
                            <<"U00AC","U00A3">>),
                        <<"U201A","U00C7","U03C0">>))
        negative == str_startswith(txt0, "(") /\ str_endswith(txt0, ")")
        txt == str_strip_chars(txt0, {"(", ")"})
        value == float(txt)
    IN  IF value.raised THEN value
        ELSE [raised |-> FALSE, value |-> IF negative THEN 0 - value.value ELSE value.value]

detect_currency(text) ==
    LET lower == str_lower(text)
    IN  IF \/ str_contains(lower, <<"i","n","r">>)
           \/ str_contains(lower, <<"r","s",".">>)
           \/ str_contains(lower, <<"r","s"," ">>)
           \/ str_contains(lower, <<"r","u","p","e","e">>)
           \/ str_contains(text, <<"U201A","U00C7","U03C0">>)
        THEN "INR"
        ELSE IF str_contains(lower, <<"u","s","d">>) \/ str_contains(text, <<"$">>)
        THEN "USD"
        ELSE IF str_contains(lower, <<"e","u","r">>) \/ str_contains(text, <<"U201A","U00C7","U00A8">>)
        THEN "EUR"
        ELSE IF str_contains(lower, <<"g","b","p">>) \/ str_contains(text, <<"U00AC","U00A3">>)
        THEN "GBP"
        ELSE "Unknown"

\* years[-n:]
NegSlice(years, n) ==
    IF n = 0 \/ n >= Len(years) THEN years
    ELSE SubSeq(years, Len(years) - n + 1, Len(years))

Repeat(x, n) == [k \in 1..n |-> x]

\* assign_years_to_amounts keeping the left-most years where it keeps the right-most.
assign_years_leftmost(years, amount_count) ==
    IF amount_count = 0 THEN <<>>
    ELSE IF years = <<>> THEN Repeat(None, amount_count)
    ELSE IF Len(years) = amount_count THEN years
    ELSE IF Len(years) = 1 THEN Repeat(years[1], amount_count)
    ELSE IF Len(years) > amount_count THEN SubSeq(years, 1, amount_count)
    ELSE Repeat(years[Len(years)], amount_count)

assign_years_to_amounts(years, amount_count) ==
    IF amount_count = 0 THEN <<>>
    ELSE IF years = <<>> THEN Repeat(None, amount_count)
    ELSE IF Len(years) = amount_count THEN years
    ELSE IF Len(years) = 1 THEN Repeat(years[1], amount_count)
    ELSE IF Len(years) > amount_count THEN NegSlice(years, amount_count)
    ELSE Repeat(years[Len(years)], amount_count)

\* MetricMatches stopping at the first metric whose aliases hit.
MetricMatchesFirstOnly(m, normalized_line) ==
    /\ \E a \in 1..Len(FINANCIAL_PATTERNS[m].aliases) :
           re_search(FINANCIAL_PATTERNS[m].aliases[a], normalized_line, FALSE)
    /\ \A q \in 1..(m - 1) :
           \A a \in 1..Len(FINANCIAL_PATTERNS[q].aliases) :
               ~re_search(FINANCIAL_PATTERNS[q].aliases[a], normalized_line, FALSE)

\* Line 106: any alias of the metric is found in the lower-cased line.
MetricMatches(m, normalized_line) ==
    \E a \in 1..Len(FINANCIAL_PATTERNS[m].aliases) :
        re_search(FINANCIAL_PATTERNS[m].aliases[a], normalized_line, FALSE)

\* Line 107: the tokens of the line that hold a digit, their spaces removed.
line_amounts(line) ==
    LET found == AMOUNT_PATTERN_findall(line, 1)
        digit(a) == \E k \in 1..Len(a) : a[k] \in Digits
        kept == SelectSeq(found, digit)
    IN  [k \in 1..Len(kept) |-> str_remove(kept[k], <<" ">>)]

\* Lines 111-127: the facts one metric adds for one line, a token that does not
\* parse skipped.
RECURSIVE amount_facts(_, _, _, _, _, _, _)
amount_facts(amounts, mapped_years, idx, metric_name, line, source_file, page) ==
    IF idx > Len(amounts) THEN <<>>
    ELSE LET value == normalize_amount(amounts[idx])
             rest == amount_facts(amounts, mapped_years, idx + 1, metric_name, line,
                                  source_file, page)
         IN  IF value.raised THEN rest
             ELSE << [metric |-> metric_name,
                      value |-> value.value,
                      currency |-> detect_currency(line),
                      year |-> IF idx <= Len(mapped_years) THEN mapped_years[idx] ELSE None,
                      context |-> line,
                      source_file |-> source_file,
                      page |-> page] >> \o rest

\* Lines 107-127.
metric_facts(m, line, source_file, page) ==
    LET amounts == line_amounts(line)
        years == extract_years(line)
        mapped_years == assign_years_to_amounts(years, Len(amounts))
    IN  amount_facts(amounts, mapped_years, 1, FINANCIAL_PATTERNS[m].name, line,
                     source_file, page)

\* Line 101: the page's lines, stripped, the empty ones left out.
page_lines(text) ==
    LET nonempty(ln) == str_strip(ln) # <<>>
        kept == SelectSeq(text, nonempty)
    IN  [k \in 1..Len(kept) |-> str_strip(kept[k])]

(***************************************************************************)
(* Inputs of extract_financial_metrics.  A page is what text.splitlines()  *)
(* gives for it: a tuple of raw lines.                                     *)
(***************************************************************************)
NetIncomeLine == <<"N","e","t"," ","I","n","c","o","m","e"," ","2","0","2","1"," ","2","0","2","2"," ","1",",","0","0","0"," ","(","2","0","0",")">>

RawLines ==
    { NetIncomeLine,
      <<"T","o","t","a","l"," ","I","n","c","o","m","e"," ","f","r","o","m"," ","o","p","e","r","a","t","i","o","n","s">>,
      <<"E","B","I","T","D","A"," ","2","0","2","0"," ","(","-","5",")">>,
      <<" ","P","A","T"," ","U00A3","5"," ","7",".","5"," ">>,
      <<"S","t","e","p","s"," ","3">>,
      <<" "," "," ">>,
      <<>> }

RECURSIVE SeqsUpTo(_, _)
SeqsUpTo(S, n) ==
    IF n = 0 THEN {<<>>}
    ELSE LET shorter == SeqsUpTo(S, n - 1)
         IN  shorter \cup {Append(s, x) : s \in shorter, x \in S}

Documents ==
    {<<p>> : p \in SeqsUpTo(RawLines, MaxLines)}
        \cup {<<p, q>> : p \in SeqsUpTo(RawLines, 1), q \in SeqsUpTo(RawLines, 1)}
        \cup {<<>>}

Idle ==
    /\ lines = <<>>
    /\ page_number = 0
    /\ line_idx = 0
    /\ metric_idx = 0
    /\ metrics = <<>>

InitExtract ==
    /\ pc = "page"
    /\ fn = "extract_financial_metrics"
    /\ args \in {[pages |-> d, name |-> "report.pdf"] : d \in Documents}
    /\ ret = NoValue
    /\ Idle

\* Lines 99-101: the next page is opened and split into lines.
NextPage ==
    /\ pc = "page"
    /\ page_number < Len(args.pages)
    /\ page_number' = page_number + 1
    /\ lines' = page_lines(args.pages[page_number + 1])
    /\ line_idx' = 1
    /\ metric_idx' = 1
    /\ pc' = "line"
    /\ UNCHANGED <<fn, args, ret, metrics>>

\* Lines 105-127: one metric is tried on the current line.
TryMetric ==
    /\ pc = "line"
    /\ line_idx <= Len(lines)
    /\ metric_idx <= Len(FINANCIAL_PATTERNS)
    /\ metrics' =
           IF MetricMatches(metric_idx, str_lower(lines[line_idx]))
           THEN metrics \o metric_facts(metric_idx, lines[line_idx], args.name, page_number)
           ELSE metrics
    /\ metric_idx' = metric_idx + 1
    /\ UNCHANGED <<pc, fn, args, ret, lines, page_number, line_idx>>

\* Line 103: the metrics are exhausted, the next line is taken.
NextLine ==
    /\ pc = "line"
    /\ line_idx <= Len(lines)
    /\ metric_idx > Len(FINANCIAL_PATTERNS)
    /\ line_idx' = line_idx + 1
    /\ metric_idx' = 1
    /\ UNCHANGED <<pc, fn, args, ret, lines, page_number, metrics>>

\* Line 103: the lines of the page are exhausted.
EndPage ==
    /\ pc = "line"
    /\ line_idx > Len(lines)
    /\ pc' = "page"
    /\ UNCHANGED <<fn, args, ret, lines, page_number, line_idx, metric_idx, metrics>>

\* Line 128.
ReturnMetrics ==
    /\ pc = "page"
    /\ page_number >= Len(args.pages)
    /\ ret' = metrics
    /\ pc' = "done"
    /\ UNCHANGED <<fn, args, lines, page_number, line_idx, metric_idx, metrics>>

NextExtract == NextPage \/ TryMetric \/ NextLine \/ EndPage \/ ReturnMetrics

SpecExtract == InitExtract /\ [][NextExtract]_vars

(***************************************************************************)
(* assign_years_to_amounts, called on its own.                             *)
(***************************************************************************)
YearValues == {2019, 2020, 2021}

InitYears ==
    /\ pc = "call"
    /\ fn = "assign_years_to_amounts"
    /\ args \in {[years |-> y, amount_count |-> n] :
                    y \in SeqsUpTo(YearValues, MaxYears), n \in 0..MaxAmounts}
    /\ ret = NoValue
    /\ Idle

Call_assign_years_to_amounts ==
    /\ pc = "call"
    /\ fn = "assign_years_to_amounts"
    /\ ret' = assign_years_to_amounts(args.years, args.amount_count)
    /\ pc' = "done"
    /\ UNCHANGED <<fn, args, lines, page_number, line_idx, metric_idx, metrics>>

SpecYears == InitYears /\ [][Call_assign_years_to_amounts]_vars

(***************************************************************************)
(* normalize_amount, called on the tokens AMOUNT_PATTERN produces.         *)
(***************************************************************************)
AmountTexts ==
    { Flatten(<<lp, sign, cur, ws, whole, frac, rp>>) :
        lp \in {<<>>, <<"(">>},
        sign \in {<<>>, <<"-">>, <<"+">>},
        cur \in {<<>>, <<"$">>, <<"U00A3">>},
        ws \in {<<>>, <<" ">>, <<"TAB">>},
        whole \in {<<"5">>, <<"1",",","2","0","0">>},
        frac \in {<<>>, <<".","0","0">>, <<".","5">>},
        rp \in {<<>>, <<")">>} }

InitAmount ==
    /\ pc = "call"
    /\ fn = "normalize_amount"
    /\ args \in {[raw |-> line_amounts(t)[1]] : t \in AmountTexts}
    /\ ret = NoValue
    /\ Idle

Call_normalize_amount ==
    /\ pc = "call"
    /\ fn = "normalize_amount"
    /\ ret' = normalize_amount(args.raw)
    /\ pc' = "done"
    /\ UNCHANGED <<fn, args, lines, page_number, line_idx, metric_idx, metrics>>

SpecAmount == InitAmount /\ [][Call_normalize_amount]_vars

(***************************************************************************)
(* detect_currency, called on short lines.                                 *)
(***************************************************************************)
MaxSymbols == 2    \* most fragments in a line given to detect_currency

CurrencyFragments ==
    { <<"$">>, <<"U20AC">>, <<"U00A3">>, <<"U20B9">>, <<"I","N","R">>, <<"R","s",".">>, <<"r","u","p","e","e">>,
      <<"O","t","h","e","r","s"," ">>, <<"U","S","D">>, <<"e","u","r">>, <<"g","b","p">>, <<" ","5","0","0">>, <<"U201A","U00C7","U03C0">> }

InitCurrency ==
    /\ pc = "call"
    /\ fn = "detect_currency"
    /\ args \in {[text |-> Flatten(fs)] : fs \in SeqsUpTo(CurrencyFragments, MaxSymbols)}
    /\ ret = NoValue
    /\ Idle

Call_detect_currency ==
    /\ pc = "call"
    /\ fn = "detect_currency"
    /\ ret' = detect_currency(args.text)
    /\ pc' = "done"
    /\ UNCHANGED <<fn, args, lines, page_number, line_idx, metric_idx, metrics>>

SpecCurrency == InitCurrency /\ [][Call_detect_currency]_vars

(***************************************************************************)
(* src/bank_statement_analyzer.py                                          *)
(***************************************************************************)
DEFAULT_COLUMN_ALIASES ==
    [date |-> <<<<"d","a","t","e">>, <<"t","x","n"," ","d","a","t","e">>, <<"t","r","a","n","s","a","c","t","i","o","n"," ","d","a","t","e">>, <<"p","o","s","t","e","d"," ","d","a","t","e">>>>,
     description |-> <<<<"d","e","s","c","r","i","p","t","i","o","n">>, <<"n","a","r","r","a","t","i","o","n">>, <<"t","r","a","n","s","a","c","t","i","o","n"," ","d","e","t","a","i","l","s">>, <<"m","e","r","c","h","a","n","t">>,
                       <<"r","e","m","a","r","k","s">>>>,
     amount |-> <<<<"a","m","o","u","n","t">>, <<"d","e","b","i","t">>, <<"w","i","t","h","d","r","a","w","a","l">>, <<"t","r","a","n","s","a","c","t","i","o","n"," ","a","m","o","u","n","t">>, <<"v","a","l","u","e">>>>,
     credit |-> <<<<"c","r","e","d","i","t">>, <<"d","e","p","o","s","i","t">>>>,
     debit |-> <<<<"d","e","b","i","t">>, <<"w","i","t","h","d","r","a","w","a","l">>>>]

CATEGORY_RULES ==
    << [category |-> "Rent / Housing", necessity |-> "Necessity",
        patterns |-> <<<<"r","e","n","t">>, <<"l","a","n","d","l","o","r","d">>, <<"m","o","r","t","g","a","g","e">>>>],
       [category |-> "Groceries", necessity |-> "Necessity",
        patterns |-> <<<<"g","r","o","c","e","r","y">>, <<"s","u","p","e","r","m","a","r","k","e","t">>, <<"m","a","r","t">>, <<"w","h","o","l","e"," ?","f","o","o","d","s">>, <<"a","l","d","i">>,
                       <<"w","a","l","m","a","r","t">>>>],
       [category |-> "Utilities", necessity |-> "Necessity",
        patterns |-> <<<<"e","l","e","c","t","r","i","c">>, <<"w","a","t","e","r">>, <<"g","a","s"," ","b","i","l","l">>, <<"i","n","t","e","r","n","e","t">>, <<"b","r","o","a","d","b","a","n","d">>,
                       <<"u","t","i","l","i","t","y">>>>],
       [category |-> "Transport", necessity |-> "Necessity",
        patterns |-> <<<<"f","u","e","l">>, <<"p","e","t","r","o","l">>, <<"d","i","e","s","e","l">>, <<"u","b","e","r">>, <<"l","y","f","t">>, <<"m","e","t","r","o">>, <<"b","u","s">>,
                       <<"t","r","a","i","n">>>>],
       [category |-> "Healthcare", necessity |-> "Necessity",
        patterns |-> <<<<"h","o","s","p","i","t","a","l">>, <<"p","h","a","r","m","a","c","y">>, <<"d","o","c","t","o","r">>, <<"c","l","i","n","i","c">>>>],
       [category |-> "Education", necessity |-> "Necessity",
        patterns |-> <<<<"t","u","i","t","i","o","n">>, <<"s","c","h","o","o","l">>, <<"c","o","u","r","s","e">>, <<"u","d","e","m","y">>, <<"c","o","u","r","s","e","r","a">>>>],
       [category |-> "Dining / Food Delivery", necessity |-> "Non-necessity",
        patterns |-> <<<<"r","e","s","t","a","u","r","a","n","t">>, <<"c","a","f","e">>, <<"z","o","m","a","t","o">>, <<"s","w","i","g","g","y">>, <<"d","o","o","r","d","a","s","h">>,
                       <<"u","b","e","r","e","a","t","s">>>>],
       [category |-> "Shopping", necessity |-> "Non-necessity",
        patterns |-> <<<<"a","m","a","z","o","n">>, <<"f","l","i","p","k","a","r","t">>, <<"s","h","o","p","p","i","n","g">>, <<"s","t","o","r","e">>>>],
       [category |-> "Entertainment", necessity |-> "Non-necessity",
        patterns |-> <<<<"n","e","t","f","l","i","x">>, <<"s","p","o","t","i","f","y">>, <<"p","r","i","m","e">>, <<"m","o","v","i","e">>, <<"c","i","n","e","m","a">>, <<"g","a","m","e">>>>],
       [category |-> "Travel", necessity |-> "Non-necessity",
        patterns |-> <<<<"a","i","r","l","i","n","e","s">>, <<"h","o","t","e","l">>, <<"b","o","o","k","i","n","g">>, <<"t","r","i","p">>, <<"v","a","c","a","t","i","o","n">>>>] >>

\* The None that _find_column returns; no header is empty.
NoColumn == <<>>

\* str(column).strip().lower()
header_key(column) == str_lower(str_strip(column))

\* find_column comparing the headers as written, neither stripped nor lower-cased.
find_column_exact(columns, aliases) ==
    LET alias_set == {aliases[a] : a \in 1..Len(aliases)}
        hits == {c \in 1..Len(columns) : columns[c] \in alias_set}
    IN  IF hits = {} THEN NoColumn ELSE columns[Min(hits)]

find_column(columns, aliases) ==
    LET alias_set == {header_key(aliases[a]) : a \in 1..Len(aliases)}
        hits == {c \in 1..Len(columns) : header_key(columns[c]) \in alias_set}
    IN  IF hits = {} THEN NoColumn ELSE columns[Min(hits)]

(***************************************************************************)
(* The cells of a table as the spreadsheet reader gives them, and the      *)
(* pandas conversions normalize_columns applies to them.                   *)
(***************************************************************************)
Number(n) == [kind |-> "number", num |-> n * Unit, text |-> <<>>]

Text(s) == [kind |-> "text", num |-> 0, text |-> s]

Datetime(d) == [kind |-> "datetime", num |-> d, text |-> <<>>]

NaN == [kind |-> "nan", num |-> 0, text |-> <<>>]

\* A text that reads as a date: YYYY-MM-DD, the only form of the inputs.
IsoDate(s) ==
    /\ Len(s) = 10
    /\ \A k \in {1, 2, 3, 4, 6, 7, 9, 10} : s[k] \in Digits
    /\ s[5] = "-"
    /\ s[8] = "-"

\* pd.to_datetime(cell, errors="coerce"); NaN stands for NaT.
to_datetime(cell) ==
    CASE cell.kind = "datetime" -> cell
      [] cell.kind = "text" ->
             IF IsoDate(str_strip(cell.text))
             THEN Datetime(int(str_remove(str_strip(cell.text), <<"-">>)))
             ELSE NaN
      [] cell.kind = "nan" -> NaN

\* pd.to_numeric(cell, errors="coerce")
to_numeric(cell) ==
    CASE cell.kind = "number" -> cell
      [] cell.kind = "text" ->
             IF float(cell.text).raised THEN NaN
             ELSE [kind |-> "number", num |-> float(cell.text).value, text |-> <<>>]
      [] cell.kind = "nan" -> NaN

\* Series.astype(str).str.strip().  An empty cell becomes the text "nan" where
\* astype(str) converts missing values, and stays missing where it keeps them:
\* which of the two depends on the installed pandas.
astype_str_strip(cell, na_to_text) ==
    CASE cell.kind = "text" -> Text(str_strip(cell.text))
      [] cell.kind = "nan" -> IF na_to_text THEN Text(<<"n","a","n">>) ELSE NaN

fillna(cell, n) == IF cell.kind = "nan" THEN Number(n) ELSE cell

\* df[col] of one row.
cell_of(df, r, col) ==
    df.rows[r][CHOOSE c \in 1..Len(df.columns) : df.columns[c] = col]

ValueError == [raised |-> TRUE, rows |-> <<>>]

\* Lines 160-178, once the columns are resolved: amounts[r] is the Amount cell of row r.
normalized_rows(df, date_col, description_col, na_to_text, amounts) ==
    LET built == [r \in 1..Len(df.rows) |->
                     [index |-> r,
                      Date |-> to_datetime(cell_of(df, r, date_col)),
                      Description |-> astype_str_strip(cell_of(df, r, description_col),
                                                       na_to_text),
                      Amount |-> amounts[r]]]
        complete(row) ==
            /\ row.Date.kind # "nan"
            /\ row.Description.kind # "nan"
            /\ row.Amount.kind # "nan"
        kept == SelectSeq(built, complete)
    IN  [k \in 1..Len(kept) |->
            [index |-> kept[k].index,
             Date |-> kept[k].Date.num,
             Description |-> kept[k].Description.text,
             Amount |-> kept[k].Amount.num]]

normalize_columns(df, na_to_text) ==
    LET columns == df.columns
        date_col == find_column(columns, DEFAULT_COLUMN_ALIASES.date)
        description_col == find_column(columns, DEFAULT_COLUMN_ALIASES.description)
        amount_col == find_column(columns, DEFAULT_COLUMN_ALIASES.amount)
        credit_col == find_column(columns, DEFAULT_COLUMN_ALIASES.credit)
        debit_col == find_column(columns, DEFAULT_COLUMN_ALIASES.debit)
        direct == [r \in 1..Len(df.rows) |-> to_numeric(cell_of(df, r, amount_col))]
        synthesized ==
            [r \in 1..Len(df.rows) |->
                LET credit == fillna(to_numeric(cell_of(df, r, credit_col)), 0)
                    debit == fillna(to_numeric(cell_of(df, r, debit_col)), 0)
                IN  [kind |-> "number", num |-> credit.num - debit.num, text |-> <<>>]]
    IN  IF date_col = NoColumn \/ description_col = NoColumn THEN ValueError
        ELSE IF amount_col # NoColumn
        THEN [raised |-> FALSE,
              rows |-> normalized_rows(df, date_col, description_col, na_to_text, direct)]
        ELSE IF credit_col # NoColumn /\ debit_col # NoColumn
        THEN [raised |-> FALSE,
              rows |-> normalized_rows(df, date_col, description_col, na_to_text,
                                       synthesized)]
        ELSE ValueError

RuleMatches(r, description) ==
    \E p \in 1..Len(CATEGORY_RULES[r].patterns) :
        re_search(CATEGORY_RULES[r].patterns[p], description, TRUE)

RECURSIVE categorize_from(_, _)
categorize_from(description, r) ==
    IF r > Len(CATEGORY_RULES) THEN <<"Other", "Non-necessity">>
    ELSE IF RuleMatches(r, description)
         THEN <<CATEGORY_RULES[r].category, CATEGORY_RULES[r].necessity>>
         ELSE categorize_from(description, r + 1)

\* categorize returning the last rule that matches instead of the first.
categorize_last_match(description) ==
    LET hits == {r \in 1..Len(CATEGORY_RULES) : RuleMatches(r, description)}
    IN  IF hits = {} THEN <<"Other", "Non-necessity">>
        ELSE <<CATEGORY_RULES[Max(hits)].category, CATEGORY_RULES[Max(hits)].necessity>>

categorize(description) == categorize_from(description, 1)

\* A stable sort of the rows by column key: ascending, or descending with ties kept
\* in order (what DataFrame.sort_values gives on frames this small).
RECURSIVE sort_values(_, _, _)
sort_values(seq, key, ascending) ==
    IF seq = <<>> THEN <<>>
    ELSE LET n == Len(seq)
             sorted == sort_values(SubSeq(seq, 1, n - 1), key, ascending)
             x == seq[n]
             before(y) == IF ascending THEN y[key] <= x[key] ELSE y[key] >= x[key]
             ahead == {k \in 1..Len(sorted) : before(sorted[k])}
             at == IF ahead = {} THEN 0 ELSE Max(ahead)
         IN  SubSeq(sorted, 1, at) \o <<x>> \o SubSeq(sorted, at + 1, Len(sorted))

\* The group keys in the order groupby lists them: sorted by category, then necessity.
GroupOrder ==
    << "Dining / Food Delivery", "Education", "Entertainment", "Groceries", "Healthcare",
       "Other", "Rent / Housing", "Shopping", "Transport", "Travel", "Utilities" >>

NecessityOrder == <<"Necessity", "Non-necessity">>

RECURSIVE sum_spend(_)
sum_spend(rows) == IF rows = <<>> THEN 0 ELSE Head(rows).Spend + sum_spend(Tail(rows))

\* expenses_of without the filter on negative amounts.
expenses_of_all_rows(sorted_df) ==
    [k \in 1..Len(sorted_df) |->
        [Category |-> sorted_df[k].Category,
         Necessity |-> sorted_df[k].Necessity,
         Spend |-> IF sorted_df[k].Amount < 0 THEN 0 - sorted_df[k].Amount
                   ELSE sorted_df[k].Amount]]

\* Lines 195-196.
expenses_of(sorted_df) ==
    LET negative(row) == row.Amount < 0
        kept == SelectSeq(sorted_df, negative)
    IN  [k \in 1..Len(kept) |->
            [Category |-> kept[k].Category,
             Necessity |-> kept[k].Necessity,
             Spend |-> IF kept[k].Amount < 0 THEN 0 - kept[k].Amount ELSE kept[k].Amount]]

analyze_statement(df) ==
    LET by_date == sort_values(df, "Date", TRUE)
        categories == [k \in 1..Len(by_date) |-> categorize(by_date[k].Description)]
        sorted_df == [k \in 1..Len(by_date) |->
                         [Date |-> by_date[k].Date,
                          Description |-> by_date[k].Description,
                          Amount |-> by_date[k].Amount,
                          Category |-> categories[k][1],
                          Necessity |-> categories[k][2]]]
        expenses == expenses_of(sorted_df)
        in_group(c, n) ==
            LET member(e) == e.Category = GroupOrder[c] /\ e.Necessity = NecessityOrder[n]
            IN  SelectSeq(expenses, member)
        category_groups ==
            Flatten([j \in 1..(Len(GroupOrder) * Len(NecessityOrder)) |->
                LET c == ((j - 1) \div Len(NecessityOrder)) + 1
                    n == ((j - 1) % Len(NecessityOrder)) + 1
                IN  IF in_group(c, n) = <<>> THEN <<>>
                    ELSE << [Category |-> GroupOrder[c], Necessity |-> NecessityOrder[n],
                             Spend |-> sum_spend(in_group(c, n))] >>])
        in_need(n) ==
            LET member(e) == e.Necessity = NecessityOrder[n]
            IN  SelectSeq(expenses, member)
        need_groups ==
            Flatten([n \in 1..Len(NecessityOrder) |->
                IF in_need(n) = <<>> THEN <<>>
                ELSE << [Necessity |-> NecessityOrder[n],
                         Spend |-> sum_spend(in_need(n))] >>])
    IN  [sorted_df |-> sorted_df,
         summary_by_category |-> sort_values(category_groups, "Spend", FALSE),
         summary_by_need |-> sort_values(need_groups, "Spend", FALSE)]

(***************************************************************************)
(* categorize, called on descriptions put together from fragments.         *)
(***************************************************************************)
DescriptionFragments ==
    { <<"r","e","n","t">>, <<"U","B","E","R">>, <<"e","a","t","s">>, <<"S","t","o","r","e">>, <<"w","a","l">>, <<"m","a","r","t">>, <<" ">>, <<"p","r","i","m","e">>, <<"w","h","o","l","e">>,
      <<"f","o","o","d","s">>, <<"t","r","i","p">>, <<"P","h","a","r","m","a","c","y">>, <<"x">> }

InitCategorize ==
    /\ pc = "call"
    /\ fn = "categorize"
    /\ args \in {[description |-> Flatten(fs)] :
                    fs \in SeqsUpTo(DescriptionFragments, MaxWords)}
    /\ ret = NoValue
    /\ Idle

Call_categorize ==
    /\ pc = "call"
    /\ fn = "categorize"
    /\ ret' = categorize(args.description)
    /\ pc' = "done"
    /\ UNCHANGED <<fn, args, lines, page_number, line_idx, metric_idx, metrics>>

SpecCategorize == InitCategorize /\ [][Call_categorize]_vars

(***************************************************************************)
(* normalize_columns.  The spreadsheet reader gives distinct headers.      *)
(* na_to_text is the behaviour of the installed pandas (astype_str_strip). *)
(***************************************************************************)
HeaderNames ==
    { <<"T","x","n"," ","D","a","t","e">>, <<" ","D","A","T","E"," ">>, <<"N","a","r","r","a","t","i","o","n">>, <<"D","e","b","i","t">>, <<"C","r","e","d","i","t">>, <<"D","e","p","o","s","i","t">>, <<"A","m","o","u","n","t">>,
      <<"B","a","l","a","n","c","e">> }

RECURSIVE DistinctSeqsUpTo(_, _)
DistinctSeqsUpTo(S, n) ==
    IF n = 0 THEN {<<>>}
    ELSE LET shorter == DistinctSeqsUpTo(S, n - 1)
         IN  shorter \cup
                 UNION {{Append(s, x) : x \in S \ {s[k] : k \in 1..Len(s)}} :
                           s \in {t \in shorter : Len(t) = n - 1}}

HasAlias(column, aliases) ==
    \E a \in 1..Len(aliases) : header_key(column) = aliases[a]

DateCells == {Datetime(20240105), Text(<<"n","/","a">>), NaN}

DescriptionCells == {Text(<<" ","R","e","n","t"," ">>), NaN}

AmountCells == {Number(5), Number(12), Text(<<"n","/","a">>), NaN}

\* The cells a column of that header holds.
CellsOf(column) ==
    IF HasAlias(column, DEFAULT_COLUMN_ALIASES.date) THEN DateCells
    ELSE IF HasAlias(column, DEFAULT_COLUMN_ALIASES.description) THEN DescriptionCells
    ELSE AmountCells

RowsOf(columns) ==
    {row \in [1..Len(columns) -> DateCells \cup DescriptionCells \cup AmountCells] :
        \A c \in 1..Len(columns) : row[c] \in CellsOf(columns[c])}

SampleRow(columns) ==
    [c \in 1..Len(columns) |->
        IF HasAlias(columns[c], DEFAULT_COLUMN_ALIASES.date) THEN Datetime(20240105)
        ELSE IF HasAlias(columns[c], DEFAULT_COLUMN_ALIASES.description) THEN Text(<<" ","R","e","n","t"," ">>)
        ELSE Number(5)]

\* Any headers, no row or one well-formed row.
HeaderTables ==
    {[columns |-> cs, rows |-> IF one THEN <<SampleRow(cs)>> ELSE <<>>] :
        cs \in DistinctSeqsUpTo(HeaderNames, MaxCols), one \in BOOLEAN}

InitColumns ==
    /\ pc = "call"
    /\ fn = "normalize_columns"
    /\ args \in {[df |-> t, na_to_text |-> b] : t \in HeaderTables, b \in BOOLEAN}
    /\ ret = NoValue
    /\ Idle

MaxRows == 1       \* most rows of a statement table

TxnDateHeaders == <<<<"T","x","n"," ","D","a","t","e">>, <<"N","a","r","r","a","t","i","o","n">>, <<"D","e","b","i","t">>, <<"C","r","e","d","i","t">>>>

AmountHeaders == <<<<"D","a","t","e">>, <<"D","e","s","c","r","i","p","t","i","o","n">>, <<"A","m","o","u","n","t">>>>

\* Two header rows, any cells.
RowTables ==
    {[columns |-> cs, rows |-> rs] :
        cs \in {TxnDateHeaders}, rs \in SeqsUpTo(RowsOf(TxnDateHeaders), MaxRows)}
    \cup
    {[columns |-> cs, rows |-> rs] :
        cs \in {AmountHeaders}, rs \in SeqsUpTo(RowsOf(AmountHeaders), MaxRows)}

InitRows ==
    /\ pc = "call"
    /\ fn = "normalize_columns"
    /\ args \in {[df |-> t, na_to_text |-> b] : t \in RowTables, b \in BOOLEAN}
    /\ ret = NoValue
    /\ Idle

\* Lines 144-178; pc is "raised" when the ValueError leaves the function.
Call_normalize_columns ==
    /\ pc = "call"
    /\ fn = "normalize_columns"
    /\ ret' = normalize_columns(args.df, args.na_to_text)
    /\ pc' = IF ret'.raised THEN "raised" ELSE "done"
    /\ UNCHANGED <<fn, args, lines, page_number, line_idx, metric_idx, metrics>>

SpecColumns == InitColumns /\ [][Call_normalize_columns]_vars

SpecRows == InitRows /\ [][Call_normalize_columns]_vars

(***************************************************************************)
(* analyze_statement, called on normalized statements.                     *)
(***************************************************************************)
Transactions ==
    {[Date |-> d, Description |-> s, Amount |-> a * Unit] :
        d \in {20240105, 20240106},
        s \in {<<"r","e","n","t">>, <<"U","B","E","R"," ","t","r","i","p">>, <<"N","e","t","f","l","i","x">>},
        a \in {-5, -2, 0, 3}}

InitAnalyze ==
    /\ pc = "call"
    /\ fn = "analyze_statement"
    /\ args \in {[df |-> rows] : rows \in SeqsUpTo(Transactions, MaxTxns)}
    /\ ret = NoValue
    /\ Idle

Call_analyze_statement ==
    /\ pc = "call"
    /\ fn = "analyze_statement"
    /\ ret' = analyze_statement(args.df)
    /\ pc' = "done"
    /\ UNCHANGED <<fn, args, lines, page_number, line_idx, metric_idx, metrics>>

SpecAnalyze == InitAnalyze /\ [][Call_analyze_statement]_vars

(***************************************************************************)
(* The claims.                                                             *)
(***************************************************************************)
Returned(f) == pc = "done" /\ fn = f

\* C1: metric extraction on a page whose only line is
\* "Net Income 2021 2022 1,000 (200)" emits exactly two facts, in this order:
\* Net Income / 2021 / 1000.0 and Net Income / 2022 / -200.0, and no other fact.
C1_NetIncomeLineGivesTwoFacts ==
    (Returned("extract_financial_metrics") /\ args.pages = <<<<NetIncomeLine>>>>) =>
        /\ Len(ret) = 2
        /\ ret[1].metric = "Net Income" /\ ret[1].year = 2021 /\ ret[1].value = 1000 * Unit
        /\ ret[2].metric = "Net Income" /\ ret[2].year = 2022 /\ ret[2].value = 0 - 200 * Unit

\* The numeric value of the Debit or Credit cell of input row r.
InputNumber(df, r, header) == cell_of(df, r, header).num

BothNumbers(df, r) ==
    /\ cell_of(df, r, <<"D","e","b","i","t">>).kind = "number"
    /\ cell_of(df, r, <<"C","r","e","d","i","t">>).kind = "number"

\* C2: a table with the headers "Txn Date", "Narration", "Debit", "Credit" normalizes
\* without an error, and every output row has Amount = Credit - Debit of the input
\* row it comes from.
C2_AmountIsCreditMinusDebit ==
    (fn = "normalize_columns" /\ pc \in {"done", "raised"}
         /\ args.df.columns = TxnDateHeaders) =>
        /\ pc = "done"
        /\ \A k \in 1..Len(ret.rows) :
               BothNumbers(args.df, ret.rows[k].index) =>
                   ret.rows[k].Amount =
                       InputNumber(args.df, ret.rows[k].index, <<"C","r","e","d","i","t">>)
                           - InputNumber(args.df, ret.rows[k].index, <<"D","e","b","i","t">>)

\* C3: assign_years_to_amounts(Y, n) returns a list of length n: empty for n = 0;
\* n unset years for empty Y; Y itself when |Y| = n; the one year n times when
\* |Y| = 1; the right-most n years of Y in order when |Y| > n; the last year of Y
\* n times when 1 < |Y| < n.
C3_YearAlignment ==
    Returned("assign_years_to_amounts") =>
        LET Y == args.years
            n == args.amount_count
        IN  /\ Len(ret) = n
            /\ n = 0 => ret = <<>>
            /\ Y = <<>> => \A k \in 1..n : ret[k] = None
            /\ Len(Y) = n => ret = Y
            /\ Len(Y) = 1 => \A k \in 1..n : ret[k] = Y[1]
            /\ Len(Y) > n => \A k \in 1..n : ret[k] = Y[Len(Y) - n + k]
            /\ (1 < Len(Y) /\ Len(Y) < n) => \A k \in 1..n : ret[k] = Y[Len(Y)]

\* Three years and two amounts: the two right-most years are kept.
C3_Witness ==
    /\ Returned("assign_years_to_amounts")
    /\ args.years = <<2019, 2020, 2021>>
    /\ args.amount_count = 2
    /\ ret = <<2020, 2021>>

\* The rules with a pattern that is found in the description.
MatchingRules(description) ==
    {r \in 1..Len(CATEGORY_RULES) :
        \E p \in 1..Len(CATEGORY_RULES[r].patterns) :
            re_search(CATEGORY_RULES[r].patterns[p], description, TRUE)}

\* C4: categorize returns the labels of the lowest-index rule with a matching
\* pattern, and ("Other", "Non-necessity") exactly when no rule matches; the
\* Necessity rules precede the Non-necessity rules, so a description matching a
\* Necessity rule is labelled Necessity whatever else it matches.
C4_FirstMatchWins ==
    Returned("categorize") =>
        LET hits == MatchingRules(args.description)
        IN  /\ hits = {} <=> ret = <<"Other", "Non-necessity">>
            /\ hits # {} =>
                   \E r \in hits :
                       /\ \A q \in hits : r <= q
                       /\ ret = <<CATEGORY_RULES[r].category, CATEGORY_RULES[r].necessity>>
            /\ \A r, q \in 1..Len(CATEGORY_RULES) :
                   (/\ CATEGORY_RULES[r].necessity = "Necessity"
                    /\ CATEGORY_RULES[q].necessity = "Non-necessity") => r < q
            /\ (\E r \in hits : CATEGORY_RULES[r].necessity = "Necessity") =>
                   ret[2] = "Necessity"

\* "UBEReats" matches Transport (uber) and Dining / Food Delivery (ubereats).
C4_Witness ==
    /\ Returned("categorize")
    /\ args.description = <<"U","B","E","R","e","a","t","s">>
    /\ {4, 7} \subseteq MatchingRules(args.description)
    /\ ret = <<"Transport", "Necessity">>

\* The value the digits of a token spell, its point kept.
DigitsMagnitude(raw) ==
    LET numeric(c) == c \in Digits \cup {"."}
    IN  float(SelectSeq(raw, numeric)).value

\* C5: every token of the amount pattern that is wrapped in parentheses parses to
\* a value <= 0 whose magnitude is the token's digits, a sign inside the
\* parentheses or not.
C5_ParenthesizedIsNegative ==
    (/\ Returned("normalize_amount")
     /\ str_startswith(args.raw, "(")
     /\ str_endswith(args.raw, ")")) =>
        /\ ~ret.raised
        /\ ret.value <= 0
        /\ 0 - ret.value = DigitsMagnitude(args.raw)

\* The currency table as documented.
DocumentedCurrency(text) ==
    IF \/ str_contains(text, <<"U20B9">>)
       \/ str_contains(str_lower(text), <<"i","n","r">>)
       \/ str_contains(str_lower(text), <<"r","s",".">>)
       \/ str_contains(str_lower(text), <<"r","u","p","e","e">>)
    THEN "INR"
    ELSE IF str_contains(text, <<"$">>) THEN "USD"
    ELSE IF str_contains(text, <<"U20AC">>) THEN "EUR"
    ELSE IF str_contains(text, <<"U00A3">>) THEN "GBP"
    ELSE "Unknown"

\* C6: detect_currency returns INR exactly when the line holds the rupee sign or
\* "inr", "rs." or "rupee" in any case; otherwise USD exactly when it holds $;
\* otherwise EUR exactly when it holds the euro sign; otherwise GBP exactly when it
\* holds the pound sign; otherwise "Unknown".
C6_DocumentedCurrencyTable ==
    Returned("detect_currency") => ret = DocumentedCurrency(args.text)

\* Whether the date, the description and the amount of input row r resolve.
DateResolves(df, r) ==
    LET cell == cell_of(df, r, find_column(df.columns, DEFAULT_COLUMN_ALIASES.date))
    IN  cell.kind = "datetime" \/ (cell.kind = "text" /\ IsoDate(str_strip(cell.text)))

DescriptionResolves(df, r) ==
    cell_of(df, r, find_column(df.columns, DEFAULT_COLUMN_ALIASES.description)).kind = "text"

IsNumeric(cell) == cell.kind = "number" \/ (cell.kind = "text" /\ ~float(cell.text).raised)

AmountResolves(df, r) ==
    IF find_column(df.columns, DEFAULT_COLUMN_ALIASES.amount) # NoColumn
    THEN IsNumeric(cell_of(df, r, find_column(df.columns, DEFAULT_COLUMN_ALIASES.amount)))
    ELSE /\ IsNumeric(cell_of(df, r, find_column(df.columns, DEFAULT_COLUMN_ALIASES.credit)))
         /\ IsNumeric(cell_of(df, r, find_column(df.columns, DEFAULT_COLUMN_ALIASES.debit)))

\* C7: an input row is in the output of normalize_columns if and only if its date,
\* its description and its amount each resolve; a row with an unparseable date, a
\* missing description or a non-numeric or missing amount is dropped.
C7_RowKeptIffAllResolve ==
    Returned("normalize_columns") =>
        \A r \in 1..Len(args.df.rows) :
            (\E k \in 1..Len(ret.rows) : ret.rows[k].index = r) <=>
                /\ DateResolves(args.df, r)
                /\ DescriptionResolves(args.df, r)
                /\ AmountResolves(args.df, r)

HasColumn(df, aliases) == \E c \in 1..Len(df.columns) : HasAlias(df.columns[c], aliases)

\* C8: normalize_columns raises, returning no rows, exactly when the headers hold
\* no date alias, or no description alias, or neither a direct amount column nor
\* both a credit and a debit column; for every other header set it returns a table.
C8_RaisesIffColumnsUnresolved ==
    (fn = "normalize_columns" /\ pc \in {"done", "raised"}) =>
        /\ pc = "raised" <=>
               \/ ~HasColumn(args.df, DEFAULT_COLUMN_ALIASES.date)
               \/ ~HasColumn(args.df, DEFAULT_COLUMN_ALIASES.description)
               \/ ~(\/ HasColumn(args.df, DEFAULT_COLUMN_ALIASES.amount)
                    \/ /\ HasColumn(args.df, DEFAULT_COLUMN_ALIASES.credit)
                       /\ HasColumn(args.df, DEFAULT_COLUMN_ALIASES.debit))
        /\ pc = "raised" => ret.raised /\ ret.rows = <<>>
        /\ pc = "done" => ~ret.raised

\* Date and description resolve, a credit column is there, but no amount and no
\* debit column: the second error is raised.
C8_Witness ==
    /\ fn = "normalize_columns"
    /\ pc = "raised"
    /\ args.df.columns = <<<<" ","D","A","T","E"," ">>, <<"N","a","r","r","a","t","i","o","n">>, <<"C","r","e","d","i","t">>, <<"B","a","l","a","n","c","e">>>>
    /\ Len(args.df.rows) = 1

RECURSIVE SumSpend(_, _)
SumSpend(rows, idx) ==
    IF idx = {} THEN 0
    ELSE LET i == CHOOSE j \in idx : TRUE
         IN  (0 - rows[i].Amount) + SumSpend(rows, idx \ {i})

RECURSIVE SumTotals(_, _)
SumTotals(summary, idx) ==
    IF idx = {} THEN 0
    ELSE LET i == CHOOSE j \in idx : TRUE
         IN  summary[i].Spend + SumTotals(summary, idx \ {i})

NonIncreasing(summary) ==
    \A k \in 1..(Len(summary) - 1) : summary[k].Spend >= summary[k + 1].Spend

\* C9: analyze_statement counts as spend only the rows with amount < 0: each
\* (category, necessity) total is the sum of |amount| over the negative rows
\* categorized to that pair, each necessity total is the sum of the category totals
\* with that label, and both summaries are in non-increasing order of total.
C9_SpendSummaries ==
    Returned("analyze_statement") =>
        LET rows == args.df
            spent == {i \in 1..Len(rows) : rows[i].Amount < 0}
            byCat == ret.summary_by_category
            byNeed == ret.summary_by_need
            key(k) == <<byCat[k].Category, byCat[k].Necessity>>
            label == [i \in 1..Len(rows) |-> categorize(rows[i].Description)]
        IN  /\ \A k \in 1..Len(byCat) :
                   /\ byCat[k].Spend = SumSpend(rows, {i \in spent : label[i] = key(k)})
                   /\ \E i \in spent : label[i] = key(k)
            /\ \A i \in spent : \E k \in 1..Len(byCat) : label[i] = key(k)
            /\ \A j, k \in 1..Len(byCat) : key(j) = key(k) => j = k
            /\ \A k \in 1..Len(byNeed) :
                   byNeed[k].Spend =
                       SumTotals(byCat, {j \in 1..Len(byCat) :
                                            byCat[j].Necessity = byNeed[k].Necessity})
            /\ \A j \in 1..Len(byCat) :
                   \E k \in 1..Len(byNeed) : byNeed[k].Necessity = byCat[j].Necessity
            /\ \A j, k \in 1..Len(byNeed) :
                   byNeed[j].Necessity = byNeed[k].Necessity => j = k
            /\ NonIncreasing(byCat)
            /\ NonIncreasing(byNeed)

\* Rent 2 and transport 5: the larger total is listed first, and the Necessity
\* total is the sum of the two.
C9_Witness ==
    /\ Returned("analyze_statement")
    /\ Len(ret.summary_by_category) = 2
    /\ ret.summary_by_category[1].Category = "Transport"
    /\ ret.summary_by_category[1].Spend = 5 * Unit
    /\ ret.summary_by_category[2].Category = "Rent / Housing"
    /\ ret.summary_by_category[2].Spend = 2 * Unit
    /\ ret.summary_by_need = <<[Necessity |-> "Necessity", Spend |-> 7 * Unit]>>

\* The facts the claim lists for one line of page p: metrics in table order, then
\* the line's tokens left to right, the tokens that do not parse left out.
ExpectedLineFacts(line, p) ==
    LET tokens == line_amounts(line)
        hit(m) == \E a \in 1..Len(FINANCIAL_PATTERNS[m].aliases) :
                      re_search(FINANCIAL_PATTERNS[m].aliases[a], str_lower(line), FALSE)
        of_token(m, t) ==
            IF normalize_amount(tokens[t]).raised THEN <<>>
            ELSE << [metric |-> FINANCIAL_PATTERNS[m].name,
                     value |-> normalize_amount(tokens[t]).value,
                     context |-> line,
                     page |-> p] >>
        of_metric(m) ==
            IF hit(m) THEN Flatten([t \in 1..Len(tokens) |-> of_token(m, t)]) ELSE <<>>
    IN  Flatten([m \in 1..Len(FINANCIAL_PATTERNS) |-> of_metric(m)])

ExpectedPageFacts(text, p) ==
    LET trimmed == [k \in 1..Len(text) |-> str_strip(text[k])]
        nonempty(ln) == Len(ln) > 0
        kept == SelectSeq(trimmed, nonempty)
    IN  Flatten([k \in 1..Len(kept) |-> ExpectedLineFacts(kept[k], p)])

ExpectedFacts(pages) == Flatten([p \in 1..Len(pages) |-> ExpectedPageFacts(pages[p], p)])

Emitted(facts) ==
    [k \in 1..Len(facts) |->
        [metric |-> facts[k].metric, value |-> facts[k].value,
         context |-> facts[k].context, page |-> facts[k].page]]

\* C10: the facts emitted are the concatenation, over the non-empty trimmed lines
\* in source order, then over every metric in table order whose aliases match the
\* lower-cased line, then over the line's digit-bearing tokens left to right that
\* parse, of one fact per token: at every step the facts so far are a prefix of
\* that sequence, at the end they are that sequence, and every fact comes from a
\* line that holds a digit.
C10_FactsInSourceOrder ==
    fn = "extract_financial_metrics" =>
        LET expected == ExpectedFacts(args.pages)
        IN  /\ Len(metrics) <= Len(expected)
            /\ Emitted(metrics) = SubSeq(expected, 1, Len(metrics))
            /\ pc = "done" => Emitted(ret) = expected
            /\ \A k \in 1..Len(metrics) :
                   \E c \in 1..Len(metrics[k].context) : metrics[k].context[c] \in Digits

\* A page of two lines: the first matches two metrics, the second holds a token
\* that does not parse.
C10_Witness ==
    /\ Returned("extract_financial_metrics")
    /\ args.pages = << <<<<"E","B","I","T","D","A"," ","2","0","2","0"," ","(","-","5",")">>, <<" ","P","A","T"," ","U00A3","5"," ","7",".","5"," ">>>> >>
    /\ Len(ret) = 5
    /\ ret[1].metric = "Operating Income"
    /\ ret[3].metric = "EBITDA"
    /\ ret[5].metric = "Net Income"
    /\ ret[5].value = (15 * Unit) \div 2

====
